---- MODULE Spec2Model ----
(***************************************************************************)
(* State-machine model of the duplex voice client                          *)
(* (src/components/VoiceAgent.tsx) and of the audio helpers it calls       *)
(* (src/unnamed/part_006, the audioUtils module).                          *)
(*                                                                         *)
(* One action per event-loop task.  A handler runs to completion; an       *)
(* `await` of an already settled promise continues in a microtask of the   *)
(* same task and is therefore part of the same action, while an `await` of *)
(* real I/O (getUserMedia, AudioContext.resume, the transport handshake)   *)
(* splits the handler into two actions.                                    *)
(*                                                                         *)
(* Time is counted in ticks of 100 ms.                                     *)
(***************************************************************************)
EXTENDS Integers, Sequences, FiniteSets

\* ------------------------------------------------------------------ bounds
MaxSessions == 3      \* connect attempts explored
MaxTime == 3          \* ticks explored on each output clock
MaxUnits == 2         \* playback units and completion timers outstanding at once
MaxDur == 2           \* longest audio payload, in ticks
MaxFrames == 2        \* frames captured while listening
MaxTurns == 1         \* Listening -> Thinking transitions explored

\* The environment is explored under one budget at a time: many connects
\* without audio, a reconnect with capture, a reconnect with audio, much
\* playback, or much capture.
Budgets ==
  { [sessions |-> MaxSessions, units |-> 0, frames |-> 0, turns |-> 0,
     ticks |-> 0],
    [sessions |-> 2, units |-> 0, frames |-> 1, turns |-> 1,
     ticks |-> 0],
    [sessions |-> 2, units |-> 1, frames |-> 0, turns |-> 1,
     ticks |-> 0],
    [sessions |-> 1, units |-> MaxUnits, frames |-> 0, turns |-> 1,
     ticks |-> MaxTime],
    [sessions |-> 1, units |-> 1, frames |-> MaxFrames, turns |-> MaxTurns,
     ticks |-> 1] }

\* ------------------------------------------------------- program constants
DebounceTicks == 2            \* setTimeout(..., 200)
FrameSamples == 4096          \* createScriptProcessor(4096, 1, 1)
InputSampleRate == 16000      \* createSilentAudio(16000, 0.5)
SilenceMs == 500              \* createSilentAudio(16000, 0.5)

Sessions == 1..MaxSessions
Durations == 1..MaxDur
FrameLevels == {0, 3}         \* RMS of a captured frame, in tenths

Modes == {"inactive", "ready", "listening", "thinking", "speaking"}
Statuses == {"DISCONNECTED", "CONNECTING", "CONNECTED"}
Errors == {"null", "API Key missing", "Failed to connect", "Connection lost"}
TransportStates == {"none", "connecting", "open", "closing", "closed"}

VARIABLES
  budget,                 \* the exploration budget, fixed by Init
  apiKey,                 \* process.env.API_KEY present
  status, mode, error, currentVolume,          \* React state
  modeRef,                \* modeRef.current
  streamRef, processorRef, sourceRef,          \* refs: 0 is null, k the object
  inputAudioContextRef, outputAudioContextRef, \*   made by connect attempt k
  sessionPromiseRef,
  nextStartTimeRef,       \* playback cursor
  sourcesRef,             \* in-flight set of [ctx, start, dur]
  attempt,                \* per connect attempt: "none" | "gum" | "done" | "failed"
  tracks,                 \* microphone tracks: "none" | "live" | "stopped"
  inCtx,                  \* input AudioContext: "none" | "suspended" | "running" | "closed"
  outCtx,                 \* output AudioContext: "none" | "open" | "closed"
  ctxTime,                \* outputContext.currentTime of each output context
  onaudioprocess,         \* frame callback installed on processor k
  resumePending,          \* toggleMic suspended at `await resume()` of context k
  transport,              \* state of the live session of attempt k
  pendingThen,            \* callbacks queued on the unresolved session promise
  closeCalls,             \* number of session.close() invocations
  sent,                   \* blobs handed to sendRealtimeInput, in order
  stoppedPending,         \* 'ended' events still to be delivered for stopped units
  timers,                 \* armed setTimeout callbacks
  frameSeq,               \* frames captured while listening so far
  turnsEnded,             \* Listening -> Thinking transitions so far
  lastUnit,               \* unit enqueued last since the set was last cleared
  cleanups,               \* cleanup() runs since the last connect(), up to 2
  pcmIn,                  \* a Float32 sample, in units of 1 / SampleDen
  pcmData,                \* its blob data: base64 digits of the PCM16 bytes
  pcmOut,                 \* the sample decoded from it, in the same units
  pcmStage,               \* "idle" | "in" | "encoded" | "decoded"
  vp,                     \* one VoiceProcessor call: its session and its promise
  split,                  \* one splitAudioIntoChunks call
  wh,                     \* one WhatsAppHandler.handleIncomingMessage call
  hook,                   \* one GET /webhook request and its response
  ev                      \* the handler that ran last

vars == <<budget, apiKey, vp, split, wh, hook, pcmIn, pcmData, pcmOut, pcmStage, cleanups, status, mode, error, currentVolume, modeRef, streamRef,
          processorRef, sourceRef, inputAudioContextRef, outputAudioContextRef,
          sessionPromiseRef, nextStartTimeRef, sourcesRef, attempt, tracks,
          inCtx, outCtx, ctxTime, onaudioprocess, resumePending, transport,
          pendingThen, closeCalls, sent, stoppedPending, timers, frameSeq,
          turnsEnded, lastUnit, ev>>

NoUnit == [ctx |-> 0, start |-> 0, dur |-> 0]

Max(a, b) == IF a >= b THEN a ELSE b
Min(a, b) == IF a <= b THEN a ELSE b

\* the server side with no call in progress
ServerIdle ==
  /\ vp = [pc |-> "idle"]
  /\ split = [pc |-> "idle"]
  /\ wh = [pc |-> "idle"]
  /\ hook = [pc |-> "idle"]

\* the component as mounted: nothing held, nothing in flight
IdleSession ==
  /\ status = "DISCONNECTED"
  /\ mode = "inactive"
  /\ error = "null"
  /\ currentVolume = 0
  /\ modeRef = "inactive"
  /\ streamRef = 0 /\ processorRef = 0 /\ sourceRef = 0
  /\ inputAudioContextRef = 0 /\ outputAudioContextRef = 0
  /\ sessionPromiseRef = 0
  /\ nextStartTimeRef = 0
  /\ sourcesRef = {}
  /\ attempt = [k \in Sessions |-> "none"]
  /\ tracks = [k \in Sessions |-> "none"]
  /\ inCtx = [k \in Sessions |-> "none"]
  /\ outCtx = [k \in Sessions |-> "none"]
  /\ ctxTime = [k \in Sessions |-> 0]
  /\ onaudioprocess = [k \in Sessions |-> FALSE]
  /\ resumePending = [k \in Sessions |-> FALSE]
  /\ transport = [k \in Sessions |-> "none"]
  /\ pendingThen = [k \in Sessions |-> <<>>]
  /\ closeCalls = [k \in Sessions |-> 0]
  /\ sent = <<>>
  /\ stoppedPending = 0
  /\ timers = <<>>
  /\ frameSeq = 0
  /\ turnsEnded = 0
  /\ lastUnit = NoUnit
  /\ cleanups = 0
  /\ ev = "init"

Init ==
  /\ budget \in Budgets
  /\ apiKey \in BOOLEAN
  /\ IdleSession
  /\ ServerIdle
  /\ pcmIn = 0 /\ pcmData = <<0, 0, 0>> /\ pcmOut = 0 /\ pcmStage = "idle"

\* ------------------------------------------------------------ audio helpers
\* createSilentAudio(sampleRate, durationSec): an all-zero Int16Array of
\* sampleRate * durationSec samples (the duration is given here in ms).
\* A blob's id is history: for a frame its capture number, for a silence
\* chunk the number of frames captured before it was made.
createSilentAudio(sampleRate, durationMs) ==
  [kind |-> "silence", samples |-> (sampleRate * durationMs) \div 1000,
   zero |-> TRUE, id |-> 0, to |-> 0]

\* createPcmBlob(inputData): one PCM16 sample per input sample; the blob is
\* all-zero exactly when the frame is.
createPcmBlob(level, n) ==
  [kind |-> "frame", samples |-> FrameSamples, zero |-> (level = 0), id |-> n,
   to |-> 0]

\* setCurrentVolume(Math.min(1, rms * 5)), in tenths
Volume(level) == Min(10, level * 5)

closeCb == [kind |-> "close", samples |-> 0, zero |-> TRUE, id |-> 0, to |-> 0]

IsBlob(cb) == cb.kind # "close"
IsClose(cb) == cb.kind = "close"

\* The session promise of attempt k is resolved once its handshake completed.
Resolved(k) == transport[k] \in {"open", "closing", "closed"}

\* session.close() asks an open channel to close; on any other it is a no-op.
RunClose(tr, k, cbs) ==
  IF \E i \in 1..Len(cbs) : IsClose(cbs[i])
  THEN [tr EXCEPT ![k] = IF @ = "open" THEN "closing" ELSE @]
  ELSE tr

Addressed(cbs, k) == [i \in 1..Len(cbs) |-> [cbs[i] EXCEPT !.to = k]]

\* session.sendRealtimeInput(...) calls, in the order the callbacks run
handOver_Front(log, blobs) == blobs \o log

handOver(log, blobs) == log \o blobs

\* sessionPromiseRef.current?.then(cb) / await sessionPromiseRef.current, for
\* the callbacks cbs registered by one handler: run at once on a resolved
\* promise, queued on a pending one, skipped when the ref is null.  tr is the
\* transport state the calling handler leaves behind.
ThenSession(tr, cbs) ==
  LET p == sessionPromiseRef IN
  IF p = 0 THEN
    /\ transport' = tr
    /\ UNCHANGED <<pendingThen, closeCalls, sent>>
  ELSE IF Resolved(p) THEN
    /\ transport' = RunClose(tr, p, cbs)
    /\ closeCalls' = [closeCalls EXCEPT ![p] = @ + Len(SelectSeq(cbs, IsClose))]
    /\ sent' = handOver(sent, Addressed(SelectSeq(cbs, IsBlob), p))
    /\ UNCHANGED pendingThen
  ELSE
    /\ transport' = tr
    /\ pendingThen' = [pendingThen EXCEPT ![p] = handOver(@, Addressed(cbs, p))]
    /\ UNCHANGED <<closeCalls, sent>>

\* sourcesRef.current.forEach(s => s.stop()); sourcesRef.current.clear(),
\* for the in-flight set units.  Every stopped unit still delivers its
\* 'ended' event later.
StopAll(units) ==
  /\ stoppedPending' = stoppedPending + Cardinality(units)
  /\ sourcesRef' = {}

\* ------------------------------------------------------------------ cleanup
\* sessionPromiseRef.current = null, line 70: the ref after cleanup
clearSession_Keep(p) == p

clearSession(p) == 0

\* cleanup(), lines 37-75.  tr is the transport state the calling handler
\* leaves behind.  Closing the input context abandons a pending resume().
cleanup(tr) ==
  /\ tracks' = IF streamRef # 0 THEN [tracks EXCEPT ![streamRef] = "stopped"]
               ELSE tracks
  /\ streamRef' = 0
  /\ onaudioprocess' = IF processorRef # 0
                       THEN [onaudioprocess EXCEPT ![processorRef] = FALSE]
                       ELSE onaudioprocess
  /\ processorRef' = 0
  /\ sourceRef' = 0
  /\ inCtx' = IF inputAudioContextRef # 0
              THEN [inCtx EXCEPT ![inputAudioContextRef] = "closed"] ELSE inCtx
  /\ resumePending' = IF inputAudioContextRef # 0
                      THEN [resumePending EXCEPT ![inputAudioContextRef] = FALSE]
                      ELSE resumePending
  /\ inputAudioContextRef' = 0
  /\ outCtx' = IF outputAudioContextRef # 0
               THEN [outCtx EXCEPT ![outputAudioContextRef] = "closed"] ELSE outCtx
  /\ outputAudioContextRef' = 0
  /\ StopAll(sourcesRef)
  /\ lastUnit' = NoUnit
  /\ cleanups' = Min(2, cleanups + 1)
  /\ ThenSession(tr, <<closeCb>>)
  /\ sessionPromiseRef' = clearSession(sessionPromiseRef)
  /\ status' = "DISCONNECTED"
  /\ mode' = "inactive"
  /\ currentVolume' = 0

\* what cleanup() leaves alone, apart from error and the transport's own state
CleanupFrame ==
  UNCHANGED <<budget, apiKey, vp, split, wh, hook, pcmIn, pcmData, pcmOut, pcmStage, modeRef, nextStartTimeRef, attempt, ctxTime,
              timers, frameSeq, turnsEnded>>

\* ------------------------------------------------------------------ connect
\* if (!apiKey), line 82
missingKey_Never(key) == FALSE

missingKey(key) == ~key

\* connect(), lines 81-91, up to `await getUserMedia`.  The button is shown
\* while status is not CONNECTED and disabled while it is CONNECTING.
Connect ==
  /\ status = "DISCONNECTED"
  /\ ev' = "connect"
  /\ IF missingKey(apiKey) THEN
       /\ error' = "API Key missing"
       /\ UNCHANGED <<status, mode, attempt, cleanups>>
     ELSE
       /\ \E k \in Sessions :
            /\ k <= budget.sessions
            /\ attempt[k] = "none"
            /\ \A j \in Sessions : j < k => attempt[j] # "none"
            /\ attempt' = [attempt EXCEPT ![k] = "gum"]
       /\ status' = "CONNECTING"
       /\ mode' = "inactive"
       /\ error' = "null"
       /\ cleanups' = 0
  /\ UNCHANGED <<budget, apiKey, vp, split, wh, hook, pcmIn, pcmData, pcmOut, pcmStage, currentVolume, modeRef, streamRef, processorRef,
                 sourceRef, inputAudioContextRef, outputAudioContextRef,
                 sessionPromiseRef, nextStartTimeRef, sourcesRef, tracks, inCtx,
                 outCtx, ctxTime, onaudioprocess, resumePending, transport,
                 pendingThen, closeCalls, sent, stoppedPending, timers, frameSeq, turnsEnded, lastUnit>>

\* connect(), lines 93-220: getUserMedia resolved; the rest of the try block
\* runs without suspending (ai.live.connect is not awaited).  A new input
\* context starts running or, under an autoplay policy, suspended.
GetUserMediaResolved(k) ==
  /\ attempt[k] = "gum"
  /\ attempt' = [attempt EXCEPT ![k] = "done"]
  /\ streamRef' = k
  /\ tracks' = [tracks EXCEPT ![k] = "live"]
  /\ inputAudioContextRef' = k
  /\ \E st \in {"running", "suspended"} : inCtx' = [inCtx EXCEPT ![k] = st]
  /\ sourceRef' = k
  /\ processorRef' = k
  /\ outputAudioContextRef' = k
  /\ outCtx' = [outCtx EXCEPT ![k] = "open"]
  /\ ctxTime' = [ctxTime EXCEPT ![k] = 0]
  /\ sessionPromiseRef' = k
  /\ transport' = [transport EXCEPT ![k] = "connecting"]
  /\ ev' = "gum_ok"
  /\ UNCHANGED <<budget, apiKey, vp, split, wh, hook, pcmIn, pcmData, pcmOut, pcmStage, cleanups, status, mode, error, currentVolume, modeRef,
                 nextStartTimeRef, sourcesRef, onaudioprocess, resumePending,
                 pendingThen, closeCalls, sent, stoppedPending, timers, frameSeq, turnsEnded, lastUnit>>

\* connect(), lines 222-226: getUserMedia rejected.
GetUserMediaRejected_NoCatch(k) ==
  /\ attempt[k] = "gum"
  /\ attempt' = [attempt EXCEPT ![k] = "failed"]
  /\ ev' = "gum_fail"
  /\ UNCHANGED <<budget, apiKey, vp, split, wh, hook, pcmIn, pcmData, pcmOut, pcmStage, cleanups, status, mode, error, currentVolume,
                 modeRef, streamRef, processorRef, sourceRef,
                 inputAudioContextRef, outputAudioContextRef,
                 sessionPromiseRef, nextStartTimeRef, sourcesRef, tracks, inCtx,
                 outCtx, ctxTime, onaudioprocess, resumePending, transport,
                 pendingThen, closeCalls, sent, stoppedPending, timers,
                 frameSeq, turnsEnded, lastUnit>>

GetUserMediaRejected(k) ==
  /\ attempt[k] = "gum"
  /\ attempt' = [attempt EXCEPT ![k] = "failed"]
  /\ error' = "Failed to connect"
  /\ cleanup(transport)
  /\ ev' = "gum_fail"
  /\ UNCHANGED <<budget, apiKey, vp, split, wh, hook, pcmIn, pcmData, pcmOut, pcmStage, modeRef, nextStartTimeRef, ctxTime, timers,
                 frameSeq, turnsEnded>>

\* onopen, lines 127-155, followed by the callbacks waiting on the session
\* promise, which resolves with the same handshake.
onopen(k) ==
  /\ transport[k] = "connecting"
  /\ status' = "CONNECTED"
  /\ mode' = "ready"
  /\ onaudioprocess' = [onaudioprocess EXCEPT ![k] = TRUE]
  /\ transport' = RunClose([transport EXCEPT ![k] = "open"], k, pendingThen[k])
  /\ closeCalls' = [closeCalls EXCEPT
                      ![k] = @ + Len(SelectSeq(pendingThen[k], IsClose))]
  /\ sent' = handOver(sent, SelectSeq(pendingThen[k], IsBlob))
  /\ pendingThen' = [pendingThen EXCEPT ![k] = <<>>]
  /\ ev' = "open"
  /\ UNCHANGED <<budget, apiKey, vp, split, wh, hook, pcmIn, pcmData, pcmOut, pcmStage, cleanups, error, currentVolume, modeRef, streamRef, processorRef,
                 sourceRef, inputAudioContextRef, outputAudioContextRef,
                 sessionPromiseRef, nextStartTimeRef, sourcesRef, attempt,
                 tracks, inCtx, outCtx, ctxTime, resumePending, stoppedPending,
                 timers, frameSeq, turnsEnded, lastUnit>>

\* onclose, lines 201-204: the close event of a channel that had opened.  A
\* channel that fails before it opens reports an error, see onerror.
onclose(k) ==
  /\ transport[k] \in {"open", "closing"}
  /\ cleanup([transport EXCEPT ![k] = "closed"])
  /\ ev' = "close"
  /\ UNCHANGED error
  /\ CleanupFrame

\* onerror, lines 205-209.  A failed channel dispatches its error and close
\* events in one task; the cleanup that onclose then runs finds every ref
\* null and the state already reset, and changes nothing.
onerror(k) ==
  /\ transport[k] \in {"connecting", "open", "closing"}
  /\ error' = "Connection lost"
  /\ cleanup([transport EXCEPT ![k] = "closed"])
  /\ ev' = "error"
  /\ CleanupFrame

\* the Disconnect button, onClick={cleanup}, rendered while CONNECTED
Disconnect ==
  /\ status = "CONNECTED"
  /\ cleanup(transport)
  /\ ev' = "disconnect"
  /\ UNCHANGED error
  /\ CleanupFrame

\* ---------------------------------------------------------------- onmessage
\* A server message: the parts of serverContent.modelTurn and the interrupted
\* flag.  A part is text, an audio payload of some duration, or an audio
\* payload that does not decode as PCM16 ("bad").
Part(kind, dur) == [kind |-> kind, dur |-> dur]
Parts == {Part("text", 0), Part("bad", 0)} \cup {Part("audio", d) : d \in Durations}
Messages ==
  [parts : {<<>>} \cup {<<a>> : a \in Parts}
                  \cup {<<a, Part("audio", 1)>> : a \in Parts},
   interrupted : BOOLEAN]

\* nextStartTimeRef.current = Math.max(nextStartTimeRef.current,
\*                                     outputContext.currentTime)
scheduleStart_NoMax(nextStart, currentTime) == currentTime

scheduleStart(nextStart, currentTime) == Max(nextStart, currentTime)

\* nextStartTimeRef.current += audioBuffer.duration, line 190
advanceCursor_None(start, dur) == start

advanceCursor(start, dur) == start + dur

\* message.serverContent?.modelTurn?.parts?.[0]?.inlineData?.data
base64Audio(m) ==
  IF Len(m.parts) > 0 /\ m.parts[1].kind # "text" THEN m.parts[1]
  ELSE Part("none", 0)

\* decodeAudioData throws at line 166, before the source is created and
\* added to the set at lines 173-191
dropPayload_Enqueue(sources, unit) == sources \cup {unit}

dropPayload(sources, unit) == sources

MarkStale(ts) == [i \in 1..Len(ts) |-> [ts[i] EXCEPT !.stale = TRUE]]

\* onmessage, lines 156-200.  decodeAudioData settles without I/O, so the
\* handler is one task.  It runs in the closure of attempt k: its output
\* clock is that attempt's output context.  A channel delivers messages until
\* its close event.
onmessage(k, m) ==
  LET a == base64Audio(m)
      clock == ctxTime[k]
      cursor == scheduleStart(nextStartTimeRef, clock)
      unit == [ctx |-> k, start |-> cursor, dur |-> a.dur]
  IN
  /\ transport[k] \in {"open", "closing"}
  /\ a.kind # "none" =>
       Cardinality(sourcesRef) + stoppedPending + Len(timers) < budget.units
  /\ IF a.kind = "none" THEN
       IF m.interrupted THEN
         /\ StopAll(sourcesRef)
         /\ nextStartTimeRef' = 0
         /\ mode' = "ready"
         /\ lastUnit' = NoUnit
         /\ ev' = "interrupted"
         /\ UNCHANGED timers
       ELSE
         /\ ev' = "message"
         /\ UNCHANGED <<sourcesRef, stoppedPending, nextStartTimeRef, mode,
                        lastUnit, timers>>
     ELSE IF a.kind = "bad" THEN
       \* decodeAudioData throws: the handler ends after lines 159-164 and
       \* never reaches the interrupted branch
       /\ mode' = "speaking"
       /\ nextStartTimeRef' = cursor
       /\ timers' = MarkStale(timers)
       /\ sourcesRef' = dropPayload(sourcesRef, unit)
       /\ ev' = IF m.interrupted THEN "audio_bad_interrupted" ELSE "audio_bad"
       /\ UNCHANGED <<stoppedPending, lastUnit>>
     ELSE IF m.interrupted THEN
       /\ StopAll(sourcesRef \cup {unit})
       /\ nextStartTimeRef' = 0
       /\ mode' = "ready"
       /\ lastUnit' = NoUnit
       /\ timers' = MarkStale(timers)
       /\ ev' = "interrupted"
     ELSE
       /\ mode' = "speaking"
       /\ sourcesRef' = sourcesRef \cup {unit}
       /\ nextStartTimeRef' = advanceCursor(cursor, a.dur)
       /\ lastUnit' = unit
       /\ timers' = MarkStale(timers)
       /\ ev' = "audio"
       /\ UNCHANGED stoppedPending
  /\ UNCHANGED <<budget, apiKey, vp, split, wh, hook, pcmIn, pcmData, pcmOut, pcmStage, cleanups, status, error, currentVolume, modeRef, streamRef,
                 processorRef, sourceRef, inputAudioContextRef,
                 outputAudioContextRef, sessionPromiseRef, attempt, tracks,
                 inCtx, outCtx, ctxTime, onaudioprocess, resumePending,
                 transport, pendingThen, closeCalls, sent, frameSeq,
                 turnsEnded>>

\* ---------------------------------------------------------------- toggleMic
\* if (status !== ConnectionStatus.CONNECTED) return, line 230
micEnabled_Always(st) == TRUE

micEnabled(st) == st = "CONNECTED"

\* toggleMic, lines 229-252, with sendSilence, lines 254-261.  The button is
\* disabled while thinking.  A call while the status is not CONNECTED
\* returns at line 230.
toggleMic ==
  /\ micEnabled(status) => mode # "thinking"
  /\ IF ~micEnabled(status) THEN
       /\ ev' = "toggle_ignored"
       /\ UNCHANGED <<mode, sourcesRef, stoppedPending, nextStartTimeRef,
                      lastUnit, resumePending, turnsEnded, transport,
                      pendingThen, closeCalls, sent>>
     ELSE IF mode = "listening" THEN
       /\ turnsEnded < budget.turns
       /\ mode' = "thinking"
       /\ ThenSession(transport,
                      <<[createSilentAudio(InputSampleRate, SilenceMs)
                           EXCEPT !.id = frameSeq]>>)
       /\ turnsEnded' = turnsEnded + 1
       /\ ev' = "toggle_off"
       /\ UNCHANGED <<sourcesRef, stoppedPending, nextStartTimeRef, lastUnit,
                      resumePending>>
     ELSE
       /\ StopAll(sourcesRef)
       /\ nextStartTimeRef' = 0
       /\ lastUnit' = NoUnit
       /\ IF inputAudioContextRef # 0 /\ inCtx[inputAudioContextRef] = "suspended"
          THEN /\ resumePending' =
                    [resumePending EXCEPT ![inputAudioContextRef] = TRUE]
               /\ UNCHANGED mode
          ELSE /\ mode' = "listening"
               /\ UNCHANGED resumePending
       /\ ev' = "toggle_on"
       /\ UNCHANGED <<turnsEnded, transport, pendingThen, closeCalls, sent>>
  /\ UNCHANGED <<budget, apiKey, vp, split, wh, hook, pcmIn, pcmData, pcmOut, pcmStage, cleanups, status, error, currentVolume, modeRef, streamRef,
                 processorRef, sourceRef, inputAudioContextRef,
                 outputAudioContextRef, sessionPromiseRef, attempt, tracks,
                 inCtx, outCtx, ctxTime, onaudioprocess, timers, frameSeq>>

\* toggleMic, lines 247-250: resume() settled, the handler continues
resumed(k) ==
  /\ resumePending[k]
  /\ inCtx[k] = "suspended"
  /\ inCtx' = [inCtx EXCEPT ![k] = "running"]
  /\ resumePending' = [resumePending EXCEPT ![k] = FALSE]
  /\ mode' = "listening"
  /\ ev' = "resumed"
  /\ UNCHANGED <<budget, apiKey, vp, split, wh, hook, pcmIn, pcmData, pcmOut, pcmStage, cleanups, status, error, currentVolume, modeRef, streamRef,
                 processorRef, sourceRef, inputAudioContextRef,
                 outputAudioContextRef, sessionPromiseRef, nextStartTimeRef,
                 sourcesRef, attempt, tracks, outCtx, ctxTime, onaudioprocess,
                 transport, pendingThen, closeCalls, sent, stoppedPending,
                 timers, frameSeq, turnsEnded, lastUnit>>

\* ----------------------------------------------------------- frame callback
\* line 134: the frame is sent only when the mode read is 'listening'
maySend_NotInactive(m) == m # "inactive"

maySend(m) == m = "listening"

\* processor.onaudioprocess, lines 132-151, for a frame of RMS level/10
onaudioprocess_(k, level) ==
  /\ onaudioprocess[k]
  /\ inCtx[k] = "running"
  /\ IF ~maySend(modeRef) THEN
       /\ currentVolume' = 0
       /\ UNCHANGED <<transport, pendingThen, closeCalls, sent, frameSeq>>
     ELSE
       /\ frameSeq < budget.frames
       /\ currentVolume' = Volume(level)
       /\ ThenSession(transport, <<createPcmBlob(level, frameSeq + 1)>>)
       /\ frameSeq' = frameSeq + 1
  /\ ev' = "frame"
  /\ UNCHANGED <<budget, apiKey, vp, split, wh, hook, pcmIn, pcmData, pcmOut, pcmStage, cleanups, status, mode, error, modeRef, streamRef, processorRef,
                 sourceRef, inputAudioContextRef, outputAudioContextRef,
                 sessionPromiseRef, nextStartTimeRef, sourcesRef, attempt,
                 tracks, inCtx, outCtx, ctxTime, onaudioprocess, resumePending,
                 stoppedPending, timers, turnsEnded, lastUnit>>

\* useEffect(() => { modeRef.current = mode }, [mode]), lines 33-35: runs
\* after the render that follows a setMode, as a task of its own
syncModeRef ==
  /\ modeRef # mode
  /\ modeRef' = mode
  /\ ev' = "effect"
  /\ UNCHANGED <<budget, apiKey, vp, split, wh, hook, pcmIn, pcmData, pcmOut, pcmStage, cleanups, status, mode, error, currentVolume, streamRef,
                 processorRef, sourceRef, inputAudioContextRef,
                 outputAudioContextRef, sessionPromiseRef, nextStartTimeRef,
                 sourcesRef, attempt, tracks, inCtx, outCtx, ctxTime,
                 onaudioprocess, resumePending, transport, pendingThen,
                 closeCalls, sent, stoppedPending, timers, frameSeq,
                 turnsEnded, lastUnit>>

\* -------------------------------------------------------- playback and time
NewTimer == [left |-> DebounceTicks, stale |-> FALSE]

\* 100 ms pass: open output contexts advance their clock, timers run down.
\* The effect that follows a render has run by then.  Idle time, with no
\* playback or timer pending, is not explored.
Tick ==
  /\ modeRef = mode
  /\ \A k \in Sessions : outCtx[k] = "open" => ctxTime[k] < budget.ticks
  /\ \/ \E u \in sourcesRef : outCtx[u.ctx] = "open"
     \/ \E k \in Sessions : outCtx[k] = "open" /\ ctxTime[k] < nextStartTimeRef
     \/ \E i \in 1..Len(timers) : timers[i].left > 0
  /\ ctxTime' = [k \in Sessions |->
                   IF outCtx[k] = "open" THEN ctxTime[k] + 1 ELSE ctxTime[k]]
  /\ timers' = [i \in 1..Len(timers) |->
                  [timers[i] EXCEPT !.left = Max(0, @ - 1)]]
  /\ ev' = "tick"
  /\ UNCHANGED <<budget, apiKey, vp, split, wh, hook, pcmIn, pcmData, pcmOut, pcmStage, cleanups, status, mode, error, currentVolume, modeRef, streamRef,
                 processorRef, sourceRef, inputAudioContextRef,
                 outputAudioContextRef, sessionPromiseRef, nextStartTimeRef,
                 sourcesRef, attempt, tracks, inCtx, outCtx, onaudioprocess,
                 resumePending, transport, pendingThen, closeCalls, sent,
                 stoppedPending, frameSeq, turnsEnded, lastUnit>>

PlaybackFrame ==
  UNCHANGED <<budget, apiKey, vp, split, wh, hook, pcmIn, pcmData, pcmOut, pcmStage, cleanups, status, error, currentVolume, modeRef, streamRef,
              processorRef, sourceRef, inputAudioContextRef,
              outputAudioContextRef, sessionPromiseRef, nextStartTimeRef,
              attempt, tracks, inCtx, outCtx, ctxTime, onaudioprocess,
              resumePending, transport, pendingThen, closeCalls, sent, frameSeq, turnsEnded, lastUnit>>

\* 'ended' listener, lines 177-187, for a unit that played to its end
ended(u) ==
  /\ u \in sourcesRef
  /\ outCtx[u.ctx] = "open"
  /\ ctxTime[u.ctx] >= u.start + u.dur
  /\ sourcesRef' = sourcesRef \ {u}
  /\ timers' = IF sourcesRef' = {} THEN Append(timers, NewTimer) ELSE timers
  /\ ev' = "ended"
  /\ UNCHANGED <<mode, stoppedPending>>
  /\ PlaybackFrame

\* 'ended' listener, lines 177-187, for a unit stopped by stop(): the unit has
\* already left the set
endedStopped ==
  /\ stoppedPending > 0
  /\ stoppedPending' = stoppedPending - 1
  /\ timers' = IF sourcesRef = {} THEN Append(timers, NewTimer) ELSE timers
  /\ ev' = "ended_stopped"
  /\ UNCHANGED <<mode, sourcesRef>>
  /\ PlaybackFrame

RemoveAt(seq, i) == SubSeq(seq, 1, i - 1) \o SubSeq(seq, i + 1, Len(seq))

\* the setTimeout callback, lines 180-185
timerFired(i) ==
  /\ i \in 1..Len(timers)
  /\ timers[i].left = 0
  /\ mode' = IF sourcesRef = {} /\ modeRef = "speaking" THEN "ready" ELSE mode
  /\ timers' = RemoveAt(timers, i)
  /\ ev' = "timer"
  /\ UNCHANGED <<sourcesRef, stoppedPending>>
  /\ PlaybackFrame

\* ------------------------------------------------------------ specification
Next ==
  \/ Connect
  \/ \E k \in Sessions : GetUserMediaResolved(k)
  \/ \E k \in Sessions : GetUserMediaRejected(k)
  \/ \E k \in Sessions : onopen(k)
  \/ \E k \in Sessions : onclose(k)
  \/ \E k \in Sessions : onerror(k)
  \/ Disconnect
  \/ \E k \in Sessions, m \in Messages : onmessage(k, m)
  \/ toggleMic
  \/ \E k \in Sessions : resumed(k)
  \/ \E k \in Sessions, level \in FrameLevels : onaudioprocess_(k, level)
  \/ syncModeRef
  \/ Tick
  \/ \E u \in sourcesRef : ended(u)
  \/ endedStopped
  \/ \E i \in 1..Len(timers) : timerFired(i)

Spec == Init /\ [][Next]_vars

\* What the browser guarantees without the transport's help: a getUserMedia
\* promise settles, resume() settles, the effect that follows a render runs,
\* time passes while playback or a timer is pending, a source that has played
\* or was stopped dispatches 'ended', and a timer that is due fires.  Nothing
\* obliges the transport to deliver an event or the user to act.
FairSpec ==
  /\ Spec
  /\ WF_vars(\E k \in Sessions : GetUserMediaResolved(k))
  /\ WF_vars(\E k \in Sessions : resumed(k))
  /\ WF_vars(syncModeRef)
  /\ WF_vars(Tick)
  /\ WF_vars(\E u \in sourcesRef : ended(u))
  /\ WF_vars(endedStopped)
  /\ WF_vars(\E i \in 1..Len(timers) : timerFired(i))

\* ------------------------------------------------------------ sample codec
\* One sample through createPcmBlob and back through decodeAudioData.  A
\* Float32 sample s is the integer s * SampleDen, so the inputs are the
\* multiples of half a quantization step, all of them exact in Float32 and
\* in the double arithmetic of the encoder.
MaxSample == 2
NegScale == 32768
PosScale == 32767
DecodeScale == 32768
SampleDen == 2 * DecodeScale
Samples == (-MaxSample * SampleDen) .. (MaxSample * SampleDen)

\* Math.max(-1, Math.min(1, data[i]))
clampSample_None(x) == x

clampSample(x) == Max(-SampleDen, Min(SampleDen, x))

\* n * m / SampleDen with the fraction dropped, for n >= 0; the product is
\* taken in two parts so that no intermediate value exceeds 32 bits
MulTrunc(n, m) == (n \div SampleDen) * m + ((n % SampleDen) * m) \div SampleDen

\* sample < 0 ? sample * 0x8000 : sample * 0x7FFF, and the fraction dropped
\* toward zero by the store into the Int16Array
scaleSample(x) == IF x < 0 THEN -MulTrunc(-x, NegScale) ELSE MulTrunc(x, PosScale)

\* the Int16Array store keeps the low 16 bits, two's complement
ToInt16(v) == ((v + 32768) % 65536) - 32768

\* new Uint8Array(int16.buffer): low byte first
int16Bytes(q) == <<(q % 65536) % 256, (q % 65536) \div 256>>

\* btoa over the two bytes: three base64 digits (and one padding character)
encodeAudio(bytes) ==
  <<bytes[1] \div 4, (bytes[1] % 4) * 16 + bytes[2] \div 16, (bytes[2] % 16) * 4>>

\* atob: the two bytes back from the three digits
decodeAudio(b64) ==
  <<b64[1] * 4 + b64[2] \div 16, (b64[2] % 16) * 16 + b64[3] \div 4>>

\* new Int16Array(data.buffer)[i]
readInt16(bytes) ==
  IF bytes[1] + 256 * bytes[2] >= 32768
    THEN bytes[1] + 256 * bytes[2] - 65536
    ELSE bytes[1] + 256 * bytes[2]

\* dataInt16[i] / 32768.0, in units of 1 / SampleDen
decodeSample(q) == q * (SampleDen \div DecodeScale)

\* the Int16 that createPcmBlob's data carries for the sample
pcmInt16 == readInt16(decodeAudio(pcmData))

PcmInit ==
  /\ budget = CHOOSE b \in Budgets : b.ticks = MaxTime
  /\ apiKey = TRUE
  /\ IdleSession
  /\ ServerIdle
  /\ pcmIn \in Samples
  /\ pcmData = <<0, 0, 0>>
  /\ pcmOut = 0
  /\ pcmStage = "in"

SessionVars ==
  <<budget, apiKey, vp, split, wh, hook, cleanups, status, mode, error, currentVolume, modeRef,
    streamRef, processorRef, sourceRef, inputAudioContextRef,
    outputAudioContextRef, sessionPromiseRef, nextStartTimeRef, sourcesRef,
    attempt, tracks, inCtx, outCtx, ctxTime, onaudioprocess, resumePending,
    transport, pendingThen, closeCalls, sent, stoppedPending, timers,
    frameSeq, turnsEnded, lastUnit, ev>>

createPcmBlobSample ==
  /\ pcmStage = "in"
  /\ pcmData' = encodeAudio(int16Bytes(ToInt16(scaleSample(clampSample(pcmIn)))))
  /\ pcmStage' = "encoded"
  /\ UNCHANGED <<pcmIn, pcmOut>>
  /\ UNCHANGED SessionVars

decodeAudioData ==
  /\ pcmStage = "encoded"
  /\ pcmOut' = decodeSample(readInt16(decodeAudio(pcmData)))
  /\ pcmStage' = "decoded"
  /\ UNCHANGED <<pcmIn, pcmData>>
  /\ UNCHANGED SessionVars

PcmNext ==
  \/ createPcmBlobSample
  \/ decodeAudioData

PcmSpec == PcmInit /\ [][PcmNext]_vars

\* ----------------------------------------------------------------- scenario
\* One conversation turn, event by event: connect succeeds, the microphone is
\* toggled on, frames are captured while the mode is listening until three
\* have been handed to the session, the microphone is toggled off, one audio
\* payload arrives, then an interrupted message.  Between the events the
\* browser runs what it has pending: resume(), effects, playback, timers.
ScenarioInit ==
  /\ budget = [sessions |-> 1, units |-> 1, frames |-> MaxFrames + 1,
               turns |-> 1, ticks |-> MaxTime]
  /\ apiKey = TRUE
  /\ IdleSession
  /\ ServerIdle
  /\ pcmIn = 0 /\ pcmData = <<0, 0, 0>> /\ pcmOut = 0 /\ pcmStage = "idle"

ScenarioNext ==
  \/ attempt[1] = "none" /\ Connect
  \/ GetUserMediaResolved(1)
  \/ onopen(1)
  \/ mode = "ready" /\ turnsEnded = 0 /\ ~resumePending[1] /\ toggleMic
  \/ resumed(1)
  \/ \E level \in FrameLevels :
       mode = "listening" /\ frameSeq < budget.frames /\ onaudioprocess_(1, level)
  \/ mode = "listening" /\ frameSeq = budget.frames /\ toggleMic
  \/ \E d \in Durations :
       /\ mode = "thinking"
       /\ onmessage(1, [parts |-> <<Part("audio", d)>>, interrupted |-> FALSE])
  \/ /\ turnsEnded = 1
     /\ lastUnit # NoUnit
     /\ onmessage(1, [parts |-> <<>>, interrupted |-> TRUE])
  \/ syncModeRef
  \/ Tick
  \/ \E u \in sourcesRef : ended(u)
  \/ endedStopped
  \/ \E i \in 1..Len(timers) : timerFired(i)

ScenarioSpec == ScenarioInit /\ [][ScenarioNext]_vars

\* ------------------------------------------------------------------- claims
\* C1: audio payloads enqueued with no clearing of the in-flight set between
\* them get non-decreasing start times, and a unit enqueued while the output
\* clock is before the previous unit's scheduled end starts exactly at that
\* end: start(i+1) = start(i) + d(i).
C1_Gapless ==
  [][ (ev' = "audio" /\ lastUnit # NoUnit) =>
        /\ lastUnit'.start >= lastUnit.start
        /\ (ctxTime[lastUnit'.ctx] < lastUnit.start + lastUnit.dur
              => lastUnit'.start = lastUnit.start + lastUnit.dur) ]_vars

\* a unit was just enqueued behind a longer one still playing, while the
\* clock was before that one's end
C1_Witness ==
  /\ ev = "audio"
  /\ \E u \in sourcesRef :
       /\ u # lastUnit
       /\ u.dur > 1
       /\ ctxTime[u.ctx] > 0
       /\ ctxTime[u.ctx] < u.start + u.dur
       /\ lastUnit.start = u.start + u.dur

\* C2: handling a message with interrupted = true leaves the in-flight set
\* empty and the cursor 0, however many units were in flight, and takes
\* Speaking to Ready.
C2_InterruptResets ==
  [][ ev' \in {"interrupted", "audio_bad_interrupted"} =>
        /\ sourcesRef' = {}
        /\ nextStartTimeRef' = 0
        /\ (mode = "speaking" => mode' = "ready") ]_vars

\* C3: toggling the microphone on stops every in-flight unit, empties the
\* in-flight set and resets the cursor to 0, and at the moment the mode
\* becomes Listening no unit is in flight.
C3_MicOnPreempts ==
  [][ /\ ev' = "toggle_on" => sourcesRef' = {} /\ nextStartTimeRef' = 0
      /\ (mode # "listening" /\ mode' = "listening") => sourcesRef' = {} ]_vars

\* a silence chunk: 8000 zero-valued samples
IsSilenceChunk(b) == b.samples = 8000 /\ b.zero

SilenceChunks(log) == Len(SelectSeq(log, IsSilenceChunk))

\* C4: each Listening -> Thinking transition sends exactly one silence chunk
\* of 8000 zero-valued samples to the transport, and no silence chunk is
\* sent at any other time.
C4_OneSilencePerTurn ==
  [][ /\ (mode = "listening" /\ mode' = "thinking") =>
            /\ Len(sent') = Len(sent) + 1
            /\ SubSeq(sent', 1, Len(sent)) = sent
            /\ IsSilenceChunk(sent'[Len(sent')])
      /\ SilenceChunks(sent') # SilenceChunks(sent) =>
            mode = "listening" /\ mode' = "thinking" ]_vars

IsFrame(b) == b.kind = "frame"

\* frames handed to a session so far: sent, or queued on its pending promise
Handed(log, pending) ==
  LET n[k \in 0..MaxSessions] ==
        IF k = 0 THEN 0 ELSE n[k - 1] + Len(SelectSeq(pending[k], IsFrame))
  IN Len(SelectSeq(log, IsFrame)) + n[MaxSessions]

\* C5: a frame is encoded and handed to the transport only by a frame
\* callback that read the mode Listening; a callback that reads any other
\* mode sends nothing and sets the reported volume to 0.
C5_SendOnlyWhenListening ==
  [][ /\ \/ sent' = sent /\ pendingThen' = pendingThen
         \/ ev' = "frame" /\ modeRef = "listening"
         \/ Handed(sent', pendingThen') = Handed(sent, pendingThen)
      /\ (ev' = "frame" /\ modeRef # "listening") =>
            /\ sent' = sent
            /\ pendingThen' = pendingThen
            /\ currentVolume' = 0 ]_vars

\* a callback that read Listening has just sent its frame
C5_Witness ==
  /\ ev = "frame"
  /\ modeRef = "listening"
  /\ currentVolume > 0
  /\ Len(sent) > 0
  /\ IsFrame(sent[Len(sent)])

\* C6: a mode transition made by a mic toggle takes effect before any
\* further frame is processed: once the user has toggled the mic off
\* (Listening -> Thinking), a frame callback that runs transmits nothing, so
\* no frame follows that turn's silence chunk.
C6_NoFrameAfterToggle ==
  [][ (ev' = "frame" /\ mode = "thinking") =>
        Handed(sent', pendingThen') = Handed(sent, pendingThen) ]_vars

\* C7: the completion timer moves Speaking to Ready only when the in-flight
\* set is empty and no audio payload has arrived since that timer was armed.
C7_DebouncedCompletion ==
  [][ (ev' = "timer" /\ mode = "speaking" /\ mode' = "ready") =>
        /\ sourcesRef = {}
        /\ \E i \in 1..Len(timers) :
             /\ timers[i].left = 0
             /\ ~timers[i].stale
             /\ timers' = RemoveAt(timers, i) ]_vars

\* C8: a completion timer that fires after the mode has moved to Listening
\* or the session has gone Inactive leaves the mode unchanged.
C8_StaleTimerHarmless ==
  [][ (ev' = "timer" /\ mode \in {"listening", "inactive"}) =>
        mode' = mode ]_vars

\* everything a session holds is released and the session is Inactive
Released ==
  /\ streamRef = 0
  /\ \A k \in Sessions : tracks[k] # "live"
  /\ processorRef = 0 /\ sourceRef = 0
  /\ inputAudioContextRef = 0 /\ outputAudioContextRef = 0
  /\ \A k \in Sessions : inCtx[k] \notin {"running", "suspended"}
  /\ \A k \in Sessions : outCtx[k] # "open"
  /\ sourcesRef = {}
  /\ sessionPromiseRef = 0
  /\ \A k \in Sessions :
       /\ transport[k] # "open"
       /\ transport[k] = "connecting" =>
            \E i \in 1..Len(pendingThen[k]) : IsClose(pendingThen[k][i])
  /\ status = "DISCONNECTED"
  /\ mode = "inactive"

\* C9: from a connected state, user disconnect, transport error and transport
\* close each run cleanup as one step, after which the capture stream is
\* stopped and released, the capture nodes and audio contexts are released,
\* the in-flight set is empty, close is requested on the transport session,
\* status is DISCONNECTED and mode is Inactive.
C9_CleanupComplete ==
  [][ (status = "CONNECTED" /\ ev' \in {"disconnect", "error", "close"}) =>
        Released' ]_vars

\* C10: once the session is Inactive, the mode stays Inactive and the
\* in-flight set stays empty until a connect's handshake completes; a late
\* audio payload or interrupted message of the closed session changes neither.
C10_InactiveTerminal ==
  [][ (mode = "inactive" /\ sourcesRef = {} /\ ev' # "open") =>
        (mode' = "inactive" /\ sourcesRef' = {}) ]_vars

\* the state cleanup() leaves behind: nothing held, DISCONNECTED, Inactive
Cleaned ==
  /\ streamRef = 0 /\ processorRef = 0 /\ sourceRef = 0
  /\ inputAudioContextRef = 0 /\ outputAudioContextRef = 0
  /\ sourcesRef = {}
  /\ sessionPromiseRef = 0
  /\ status = "DISCONNECTED"
  /\ mode = "inactive"
  /\ currentVolume = 0

\* close() calls made or queued on the session of attempt k
CloseRequests(k) == closeCalls[k] + Len(SelectSeq(pendingThen[k], IsClose))

\* C11: over any sequence of user disconnect, onerror and onclose the client
\* invokes a session's close at most once, and a cleanup that runs after an
\* earlier one, with no connect in between, changes nothing.
C11_CloseOnce ==
  [][ /\ \A k \in Sessions : CloseRequests(k)' <= 1
      /\ (Cleaned /\ cleanups >= 1 /\ ev' \in {"disconnect", "error", "close"}) =>
            /\ Cleaned'
            /\ closeCalls' = closeCalls
            /\ pendingThen' = pendingThen
            /\ UNCHANGED <<tracks, inCtx, outCtx, onaudioprocess, resumePending,
                           sent, stoppedPending, timers, nextStartTimeRef,
                           modeRef, attempt>> ]_vars

\* a second cleanup has run for a session whose close was requested once
C11_Witness ==
  /\ cleanups = 2
  /\ ev = "close"
  /\ Cleaned
  /\ \E k \in Sessions : transport[k] = "closed" /\ closeCalls[k] = 1

\* C12: connect() with no API key reports an error and changes nothing else:
\* status stays DISCONNECTED, mode stays Inactive, and no capture device,
\* audio context or transport session is acquired.
C12_NoKeyNoConnect ==
  [][ (ev' = "connect" /\ ~apiKey) =>
        /\ error' = "API Key missing"
        /\ status' = "DISCONNECTED" /\ mode' = "inactive"
        /\ UNCHANGED <<status, mode, currentVolume, modeRef, streamRef,
                       processorRef, sourceRef, inputAudioContextRef,
                       outputAudioContextRef, sessionPromiseRef,
                       nextStartTimeRef, sourcesRef, attempt, tracks, inCtx,
                       outCtx, ctxTime, onaudioprocess, resumePending,
                       transport, pendingThen, closeCalls, sent,
                       stoppedPending, timers>> ]_vars

\* connect() has just been refused for want of a key
C12_Witness ==
  /\ ev = "connect"
  /\ ~apiKey
  /\ error = "API Key missing"
  /\ status = "DISCONNECTED"
  /\ \A k \in Sessions : attempt[k] = "none" /\ transport[k] = "none"

\* C13: when microphone acquisition fails, the connect attempt ends with an
\* error reported, status DISCONNECTED and mode Inactive; no transport
\* session is opened for it, so its handshake never sets the mode to Ready.
C13_MicFailure ==
  [][ /\ ev' = "gum_fail" =>
            /\ error' = "Failed to connect"
            /\ status' = "DISCONNECTED"
            /\ mode' = "inactive"
      /\ \A k \in Sessions : attempt'[k] = "failed" =>
            /\ transport'[k] = "none"
            /\ tracks'[k] = "none"
            /\ pendingThen'[k] = <<>> /\ closeCalls'[k] = 0
            /\ ~onaudioprocess'[k] ]_vars

\* a connect attempt has just ended with its microphone refused
C13_Witness ==
  /\ ev = "gum_fail"
  /\ error = "Failed to connect"
  /\ status = "DISCONNECTED" /\ mode = "inactive"
  /\ \E k \in Sessions : attempt[k] = "failed" /\ transport[k] = "none"

\* C14: when the handshake of a connect attempt fails, the mode is Inactive
\* afterwards and the capture device was never opened during that attempt.
C14_HandshakeFailure ==
  [][ \A k \in Sessions :
        (transport[k] = "connecting" /\ transport'[k] = "closed") =>
           /\ mode' = "inactive"
           /\ tracks'[k] = "none" ]_vars

\* C15: every connect attempt leaves Connecting: from status CONNECTING the
\* session eventually reaches Ready or Inactive with an error reported, even
\* if the transport never delivers an open, error or close event.
C15_LeavesConnecting ==
  (status = "CONNECTING") ~>
     (mode = "ready" \/ (status = "DISCONNECTED" /\ error # "null"))

\* C16: in every step the playback cursor stays the same, increases, or is
\* reset to exactly 0 by an interruption or a mic-on flush.
C16_CursorMonotone ==
  [][ \/ nextStartTimeRef' >= nextStartTimeRef
      \/ nextStartTimeRef' = 0 /\ ev' \in {"interrupted", "toggle_on"} ]_vars

\* a mic-on flush has just reset the cursor while a unit was in flight
C16_Witness ==
  /\ ev = "toggle_on"
  /\ nextStartTimeRef = 0
  /\ stoppedPending >= 1
  /\ sourcesRef = {}

\* C17: units are scheduled in arrival order: a unit enqueued with no flush
\* since the units before it starts after each of them, at or after their
\* scheduled end (the intervals [start, start + duration) do not overlap),
\* and no unit is scheduled to start before the output clock's time at its
\* enqueue.
C17_ArrivalOrder ==
  [][ ev' = "audio" =>
        /\ lastUnit'.start >= ctxTime[lastUnit'.ctx]
        /\ \A u \in sourcesRef \cup ({lastUnit} \ {NoUnit}) :
              /\ u.start < lastUnit'.start
              /\ u.start + u.dur <= lastUnit'.start ]_vars

\* a unit was just enqueued after the clock had passed the end of the unit
\* before it, which is still in the in-flight set
C17_Witness ==
  /\ ev = "audio"
  /\ \E u \in sourcesRef :
       /\ u # lastUnit
       /\ lastUnit.start > u.start + u.dur
       /\ lastUnit.start = ctxTime[lastUnit.ctx]

\* blobs of one session appear in log in capture order, and every frame
\* captured before a silence chunk was made precedes it
InOrder(log) ==
  \A i, j \in 1..Len(log) :
    (i < j /\ log[i].to = log[j].to /\ IsFrame(log[j])) =>
       /\ IsFrame(log[i]) => log[i].id < log[j].id
       /\ log[i].kind = "silence" => log[i].id < log[j].id

\* C18: frames captured while Listening are handed to the transport in
\* capture order, and all of them before the end-of-turn silence chunk of
\* their turn.
C18_CaptureOrder ==
  \A k \in Sessions : InOrder(sent \o pendingThen[k])

\* two frames and then the silence chunk of their turn have been sent
C18_Witness ==
  /\ Len(sent) >= 3
  /\ IsFrame(sent[1]) /\ IsFrame(sent[2]) /\ sent[1].id < sent[2].id
  /\ sent[3].kind = "silence" /\ sent[3].id = sent[2].id
  /\ sent[1].to = sent[3].to /\ sent[2].to = sent[3].to

\* C19: a sample in [-1, 1] encoded by createPcmBlob and decoded by
\* decodeAudioData comes back within one quantization step (1/32768) of
\* itself, and -1.0 is carried as the integer -32768.
C19_RoundTrip ==
  (pcmStage = "decoded" /\ pcmIn >= -SampleDen /\ pcmIn <= SampleDen) =>
    /\ pcmIn - pcmOut <= SampleDen \div DecodeScale
    /\ pcmOut - pcmIn <= SampleDen \div DecodeScale
    /\ pcmIn = -SampleDen => pcmInt16 = -32768

\* C20: every input sample, inside [-1, 1] or not, is encoded to an integer
\* of [-32768, 32767] with its sign kept (no wraparound); an input >= 1 is
\* encoded to 32767 and an input <= -1 to -32768.
C20_Clamped ==
  pcmStage \in {"encoded", "decoded"} =>
    /\ pcmInt16 >= -32768 /\ pcmInt16 <= 32767
    /\ pcmIn >= 0 => pcmInt16 >= 0
    /\ pcmIn <= 0 => pcmInt16 <= 0
    /\ pcmIn >= SampleDen => pcmInt16 = 32767
    /\ pcmIn <= -SampleDen => pcmInt16 = -32768

C20_Witness ==
  /\ pcmStage = "encoded"
  /\ pcmIn > SampleDen
  /\ pcmInt16 = 32767

\* C21: when the transport closes with no user disconnect and no error
\* before it, the session is cleaned up to Inactive and a lost-connection
\* notice is shown to the user.
C21_CloseNotice ==
  [][ \A k \in Sessions :
        (ev' = "close" /\ transport[k] = "open" /\ transport'[k] = "closed"
           /\ sessionPromiseRef = k) =>
          /\ mode' = "inactive"
          /\ status' = "DISCONNECTED"
          /\ error' # "null" ]_vars

\* what a session holds: devices, contexts, callback, channel, promise
Held ==
  <<streamRef, processorRef, sourceRef, inputAudioContextRef,
    outputAudioContextRef, sessionPromiseRef, tracks, inCtx, outCtx,
    onaudioprocess, transport, pendingThen, closeCalls>>

\* C22: an audio payload that does not decode as PCM16 is dropped and the
\* session goes on: no unit is enqueued for it, the status and everything
\* the session holds are as before, and a valid payload handled afterwards
\* (as any valid payload without an interrupted flag) is scheduled, at or
\* after the output clock.
C22_BadPayloadDropped ==
  [][ /\ ev' \in {"audio_bad", "audio_bad_interrupted"} =>
           /\ sourcesRef' = sourcesRef
           /\ stoppedPending' = stoppedPending
           /\ status' = status
           /\ error' = error
           /\ Held' = Held
      /\ ev' = "audio" =>
           /\ lastUnit' \in sourcesRef' \ sourcesRef
           /\ lastUnit'.start >= ctxTime[lastUnit'.ctx]
           /\ status' = status
           /\ Held' = Held ]_vars

C22_Witness ==
  /\ ev = "audio_bad"
  /\ status = "CONNECTED"
  /\ sourcesRef = {}
  /\ \E k \in Sessions :
       /\ sessionPromiseRef = k
       /\ transport[k] = "open"
       /\ tracks[k] = "live"
       /\ outCtx[k] = "open"
       /\ onaudioprocess[k]

\* the mode changes of one turn, in order
TurnOrder ==
  {<<"inactive", "ready">>, <<"ready", "listening">>, <<"listening", "thinking">>,
   <<"thinking", "speaking">>, <<"speaking", "ready">>}

\* C23: in the scenario connect, mic on, three frames captured, mic off, one
\* audio payload, interrupted: the mode goes Ready, Listening, Thinking,
\* Speaking, Ready in that order; every frame captured while Listening is
\* sent, so that exactly the three frames and then exactly one silence chunk
\* have reached the transport; and at the end the in-flight set is empty.
C23_Scenario ==
  [][ /\ mode' # mode => <<mode, mode'>> \in TurnOrder
      /\ (ev' = "frame" /\ mode = "listening") =>
           /\ Len(sent') = Len(sent) + 1
           /\ IsFrame(sent'[Len(sent')])
      /\ ev' = "interrupted" =>
           /\ mode' = "ready"
           /\ sourcesRef' = {}
           /\ Len(sent') = budget.frames + 1
           /\ \A i \in 1..budget.frames : IsFrame(sent'[i])
           /\ sent'[budget.frames + 1].kind = "silence" ]_vars

\* C24: the mode becomes Speaking only from Thinking, on an audio payload;
\* an audio payload that arrives in Ready, Listening or Inactive does not
\* make the mode Speaking.
C24_SpeakingFromThinking ==
  [][ (mode # "speaking" /\ mode' = "speaking") =>
        /\ mode = "thinking"
        /\ ev' = "audio" ]_vars

\* C25: the mode leaves Listening only to Thinking by the user's mic-off
\* toggle or to Inactive by disconnect, transport error or close; no message
\* from the transport and no timer changes the mode while it is Listening.
C25_ListeningExits ==
  [][ (mode = "listening" /\ mode' # "listening") =>
        \/ ev' = "toggle_off" /\ mode' = "thinking"
        \/ ev' \in {"disconnect", "error", "close"} /\ mode' = "inactive" ]_vars

OpenTransports == {k \in Sessions : transport[k] = "open"}
LiveStreams == {k \in Sessions : tracks[k] = "live"}
OpenOutputs == {k \in Sessions : outCtx[k] = "open"}

\* C26: at every moment at most one transport session is open, at most one
\* capture stream is live and at most one output context is open, whatever
\* the sequence of connects, disconnects and reconnects.
C26_OneSession ==
  /\ Cardinality(OpenTransports) <= 1
  /\ Cardinality(LiveStreams) <= 1
  /\ Cardinality(OpenOutputs) <= 1

\* the explored stretch of time has not run out on an open output clock
TimeLeft == \A k \in Sessions : outCtx[k] = "open" => ctxTime[k] < budget.ticks

\* steps the browser takes by itself: no message, no user action, no
\* transport event
Internal == {"effect", "tick", "ended", "ended_stopped", "timer", "resumed", "frame"}

\* C27: the session does not stay in Speaking forever with an empty
\* in-flight set: once no further message, user action or transport event
\* comes, a mode that is Speaking with nothing in flight leaves Speaking.
\* Again and again the mode is not Speaking, or a unit is in flight, or a
\* message, user action or transport event has just been handled.
C27_SpeakingEnds ==
  []<>(\/ mode # "speaking"
       \/ sourcesRef # {}
       \/ ev \notin Internal
       \/ ~TimeLeft)

\* C28: a session starts with a fresh cursor: the first unit enqueued in a
\* session (nothing enqueued since the session's start, nothing in flight)
\* starts at the current time of that session's output clock, whatever an
\* earlier session had scheduled.
C28_FreshCursor ==
  [][ (/\ ev' = "audio"
       /\ status = "CONNECTED"
       /\ lastUnit'.ctx = sessionPromiseRef
       /\ lastUnit = NoUnit
       /\ sourcesRef = {}) =>
        lastUnit'.start = ctxTime[lastUnit'.ctx] ]_vars

\* C29: audio plays only in Speaking: whenever a unit is in flight the mode
\* is Speaking, also when mic-on first has to resume a suspended input
\* context.
C29_PlaysOnlyInSpeaking == sourcesRef # {} => mode = "speaking"

\* C30: status and mode agree: the mode is Ready, Listening, Thinking or
\* Speaking only while the status is CONNECTED, and it is Inactive whenever
\* the status is DISCONNECTED or CONNECTING.
C30_StatusModeConsistent ==
  /\ mode \in {"ready", "listening", "thinking", "speaking"} => status = "CONNECTED"
  /\ status \in {"DISCONNECTED", "CONNECTING"} => mode = "inactive"

\* C31: a close or error event of a transport whose session was disconnected
\* earlier, delivered when the refs hold the devices of a session created
\* afterwards, leaves that session alone: its capture device stays live, its
\* playback is not flushed, no close is requested on its transport and the
\* mode does not change.
C31_StaleCallbackHarmless ==
  [][ \A k \in Sessions :
        (/\ ev' \in {"close", "error"}
         /\ transport[k] # "closed" /\ transport'[k] = "closed"
         /\ streamRef \notin {0, k}) =>
          /\ tracks'[streamRef] = tracks[streamRef]
          /\ sourcesRef' = sourcesRef
          /\ stoppedPending' = stoppedPending
          /\ closeCalls' = closeCalls
          /\ pendingThen' = pendingThen
          /\ mode' = mode
          /\ status' = status ]_vars

C32_ThinkingEnds ==
  []<>(mode # "thinking" \/ ev # "message")

IsAudioPart(a) == a.kind = "audio"

\* C33: every audio part of a message received while connected is enqueued
\* exactly once: a step that handles a message (no interrupted flag, every
\* payload decodable) adds as many units to the in-flight set as the
\* message's modelTurn has audio parts.
C33_EveryPartEnqueued ==
  [][ \A k \in Sessions, m \in Messages :
        (/\ onmessage(k, m)
         /\ status = "CONNECTED"
         /\ ~m.interrupted
         /\ \A i \in 1..Len(m.parts) : m.parts[i].kind # "bad") =>
          Cardinality(sourcesRef' \ sourcesRef)
            = Len(SelectSeq(m.parts, IsAudioPart)) ]_vars


\* ---------------------------------------------------------- voice processor
\* One call of VoiceProcessor.transcribeAudio, transcribeAndRespond or
\* generateAudioResponse: the live session it opens and the promise it returns.
\* `transcription` counts the non-empty text parts appended to the string,
\* `chunks` the decoded payloads pushed to responseAudioChunks.
MaxText == 3
MaxChunks == 3
MaxParts == 2

BrowserVars ==
  <<budget, apiKey, pcmIn, pcmData, pcmOut, pcmStage, cleanups, status,
    mode, error, currentVolume, modeRef, streamRef, processorRef, sourceRef,
    inputAudioContextRef, outputAudioContextRef, sessionPromiseRef,
    nextStartTimeRef, sourcesRef, attempt, tracks, inCtx, outCtx, ctxTime,
    onaudioprocess, resumePending, transport, pendingThen, closeCalls, sent,
    stoppedPending, timers, frameSeq, turnsEnded, lastUnit, ev>>

BrowserIdle ==
  /\ budget = CHOOSE b \in Budgets : b.ticks = MaxTime
  /\ apiKey = TRUE
  /\ IdleSession
  /\ pcmIn = 0 /\ pcmData = <<0, 0, 0>> /\ pcmOut = 0 /\ pcmStage = "idle"

VpKinds == {"transcribeAudio", "transcribeAndRespond", "generateAudioResponse"}

\* a part of modelTurn.parts: is part.text truthy, is part.inlineData?.data
VpPart == [text : BOOLEAN, data : BOOLEAN]
VpMessages ==
  [parts : UNION {[1..n -> VpPart] : n \in 0..MaxParts}, turnComplete : BOOLEAN]

\* resolve() and reject() act on a pending promise only
settle(promise, outcome) == IF promise = "pending" THEN outcome ELSE promise

hasText(a) == a.text
hasData(a) == a.data

\* what onmessage adds to `transcription` and to `responseAudioChunks`
textAdded(kind, m) ==
  IF kind = "generateAudioResponse" THEN 0 ELSE Len(SelectSeq(m.parts, hasText))

chunksAdded(kind, m) ==
  CASE kind = "transcribeAudio" -> 0
    [] kind = "transcribeAndRespond" -> Len(SelectSeq(m.parts, hasData))
    [] kind = "generateAudioResponse" ->
         IF Len(m.parts) > 0 /\ m.parts[1].data THEN 1 ELSE 0

\* the condition under which onclose rejects
closedEmpty(kind, v) ==
  CASE kind = "transcribeAudio" -> v.transcription = 0
    [] kind = "transcribeAndRespond" -> v.transcription = 0 /\ v.chunks = 0
    [] kind = "generateAudioResponse" -> v.chunks = 0

\* the call: without an API key it throws before any session is opened
vpStart(kind, key) ==
  [pc |-> IF key THEN "connecting" ELSE "thrown", kind |-> kind,
   transcription |-> 0, chunks |-> 0,
   promise |-> IF key THEN "pending" ELSE "rejected"]

vpCall ==
  /\ vp.pc = "called"
  /\ vp' = vpStart(vp.kind, vp.key)

\* `await ai.live.connect(...)` throws: the catch block rejects
vpConnectFailed ==
  /\ vp.pc = "connecting"
  /\ vp' = [vp EXCEPT !.pc = "failed", !.promise = settle(@, "rejected")]

\* connect resolves and onopen has sent the input
vpConnected ==
  /\ vp.pc = "connecting"
  /\ vp' = [vp EXCEPT !.pc = "open"]

vpOnmessage(m) ==
  /\ vp.pc = "open"
  /\ vp.transcription + textAdded(vp.kind, m) <= MaxText
  /\ vp.chunks + chunksAdded(vp.kind, m) <= MaxChunks
  /\ vp' = [vp EXCEPT
       !.transcription = @ + textAdded(vp.kind, m),
       !.chunks = @ + chunksAdded(vp.kind, m),
       !.pc = IF m.turnComplete THEN "closing" ELSE @,
       !.promise = IF m.turnComplete THEN settle(@, "resolved") ELSE @]

vpOnerror ==
  /\ vp.pc = "open"
  /\ vp' = [vp EXCEPT !.pc = "closing", !.promise = settle(@, "rejected")]

\* the session closes, after session.close() or from the remote side
vpOnclose ==
  /\ vp.pc \in {"open", "closing"}
  /\ vp' = [vp EXCEPT
       !.pc = "closed",
       !.promise = IF closedEmpty(vp.kind, vp) THEN settle(@, "rejected") ELSE @]

vpSession ==
  \/ vpConnectFailed
  \/ vpConnected
  \/ \E m \in VpMessages : vpOnmessage(m)
  \/ vpOnerror
  \/ vpOnclose

ProcessorInit ==
  /\ BrowserIdle
  /\ vp \in [pc : {"called"}, kind : VpKinds, key : BOOLEAN]
  /\ split = [pc |-> "idle"]
  /\ wh = [pc |-> "idle"]
  /\ hook = [pc |-> "idle"]

ProcessorNext ==
  \/ vpCall /\ UNCHANGED <<split, wh, hook>> /\ UNCHANGED BrowserVars
  \/ vpConnectFailed /\ UNCHANGED <<split, wh, hook>> /\ UNCHANGED BrowserVars
  \/ vpConnected /\ UNCHANGED <<split, wh, hook>> /\ UNCHANGED BrowserVars
  \/ (\E m \in VpMessages : vpOnmessage(m))
       /\ UNCHANGED <<split, wh, hook>> /\ UNCHANGED BrowserVars
  \/ vpOnerror /\ UNCHANGED <<split, wh, hook>> /\ UNCHANGED BrowserVars
  \/ vpOnclose /\ UNCHANGED <<split, wh, hook>> /\ UNCHANGED BrowserVars

ProcessorSpec == ProcessorInit /\ [][ProcessorNext]_vars

\* C35: the promise returned by transcribeAudio, transcribeAndRespond and
\* generateAudioResponse is settled by the time the live session has closed,
\* also when the session delivered partial text or audio and no turnComplete.
C35_SettledByClose == vp.pc = "closed" => vp.promise # "pending"


\* ------------------------------------------------------ splitAudioIntoChunks
\* One call of VoiceProcessor.splitAudioIntoChunks, one loop iteration per
\* step.  The loop is followed for at most MaxChunkList iterations, more than
\* a buffer of MaxBuf bytes has bytes.
MaxBuf == 3

MaxChunkList == MaxBuf + 2

Bytes == {0, 1}

Buffers == UNION {[1..n -> Bytes] : n \in 0..MaxBuf}

ChunkSizes == (0 - 1)..(MaxBuf + 1)

\* Buffer.prototype.slice: a negative index counts from the end, both indices
\* are clamped to the buffer, an end before the start gives the empty buffer
adjustOffset(offset, length) ==
  IF offset < 0 THEN Max(offset + length, 0) ELSE Min(offset, length)

slice(buffer, start, end) ==
  LET from == adjustOffset(start, Len(buffer))
      to == adjustOffset(end, Len(buffer))
  IN  IF to > from THEN SubSeq(buffer, from + 1, to) ELSE <<>>

SplitInit ==
  /\ BrowserIdle
  /\ vp = [pc |-> "idle"]
  /\ split \in [pc : {"loop"}, audioBuffer : Buffers,
                chunkSizeInBytes : ChunkSizes, offset : {0}, chunks : {<<>>}]
  /\ wh = [pc |-> "idle"]
  /\ hook = [pc |-> "idle"]

\* the loop body, while (offset < audioBuffer.length)
splitChunk ==
  /\ split.pc = "loop"
  /\ split.offset < Len(split.audioBuffer)
  /\ Len(split.chunks) < MaxChunkList
  /\ split' = [split EXCEPT
       !.chunks = Append(@, slice(split.audioBuffer, split.offset,
                                  split.offset + split.chunkSizeInBytes)),
       !.offset = @ + split.chunkSizeInBytes]
  /\ UNCHANGED <<vp, wh, hook>>
  /\ UNCHANGED BrowserVars

\* the loop condition is false: return chunks
splitReturn ==
  /\ split.pc = "loop"
  /\ ~(split.offset < Len(split.audioBuffer))
  /\ split' = [split EXCEPT !.pc = "returned"]
  /\ UNCHANGED <<vp, wh, hook>>
  /\ UNCHANGED BrowserVars

SplitNext ==
  \/ splitChunk
  \/ splitReturn

\* the call runs to completion once started: nothing else can preempt it
SplitSpec == SplitInit /\ [][SplitNext]_vars /\ WF_vars(SplitNext)

RECURSIVE concat(_)
concat(chunks) ==
  IF chunks = <<>> THEN <<>> ELSE Head(chunks) \o concat(Tail(chunks))

ChunksCover ==
  /\ concat(split.chunks) = split.audioBuffer
  /\ \A i \in 1..Len(split.chunks) :
       /\ Len(split.chunks[i]) <= split.chunkSizeInBytes
       /\ i < Len(split.chunks) =>
            Len(split.chunks[i]) = split.chunkSizeInBytes

\* C37: splitAudioIntoChunks terminates for every buffer and every
\* chunkSizeInBytes, and the chunks it returns concatenate to the buffer,
\* each at most chunkSizeInBytes long and only the last possibly shorter.
C37_SplitTerminates ==
  /\ <>(split.pc = "returned")
  /\ [](split.pc = "returned" => ChunksCover)


\* ------------------------------------------------------ webhook verification
\* One GET /webhook request.  A query parameter or environment variable is a
\* string or, when absent, undefined.
Undefined == [type |-> "undefined"]

Str(s) == [type |-> "string", value |-> s]

Tokens == {Undefined, Str(""), Str("t1"), Str("t2")}

HubModes == {Undefined, Str("subscribe"), Str("unsubscribe")}

Challenges == {Undefined, Str("c1")}

\* === on strings and undefined
strictEquals(a, b) == a = b

WebhookInit ==
  /\ BrowserIdle
  /\ vp = [pc |-> "idle"]
  /\ split = [pc |-> "idle"]
  /\ wh = [pc |-> "idle"]
  /\ hook \in [pc : {"request"}, mode : HubModes, token : Tokens,
               challenge : Challenges, WEBHOOK_VERIFY_TOKEN : Tokens]

webhookGet ==
  /\ hook.pc = "request"
  /\ hook' =
       IF /\ strictEquals(hook.mode, Str("subscribe"))
          /\ strictEquals(hook.token, hook.WEBHOOK_VERIFY_TOKEN)
       THEN [pc |-> "responded", mode |-> hook.mode, token |-> hook.token,
             challenge |-> hook.challenge,
             WEBHOOK_VERIFY_TOKEN |-> hook.WEBHOOK_VERIFY_TOKEN,
             statusCode |-> 200, body |-> hook.challenge]
       ELSE [pc |-> "responded", mode |-> hook.mode, token |-> hook.token,
             challenge |-> hook.challenge,
             WEBHOOK_VERIFY_TOKEN |-> hook.WEBHOOK_VERIFY_TOKEN,
             statusCode |-> 403, body |-> Str("Forbidden")]
  /\ UNCHANGED <<vp, split, wh>>
  /\ UNCHANGED BrowserVars

WebhookNext == webhookGet

WebhookSpec == WebhookInit /\ [][WebhookNext]_vars

Verified ==
  /\ hook.mode = Str("subscribe")
  /\ hook.WEBHOOK_VERIFY_TOKEN # Undefined
  /\ hook.token = hook.WEBHOOK_VERIFY_TOKEN

\* C38: GET /webhook answers 200 with the challenge only if hub.mode is
\* 'subscribe' and a verify token is configured and equals hub.verify_token;
\* in every other case, also with no token configured and none sent, 403.
C38_VerifyToken ==
  hook.pc = "responded" =>
    IF Verified
    THEN hook.statusCode = 200 /\ hook.body = hook.challenge
    ELSE hook.statusCode = 403


\* --------------------------------------------------------- WhatsApp handler
\* One call of WhatsAppHandler.handleIncomingMessage.  The payload is the
\* sequence of its messages in entry / change / message order; a message
\* carries its type, whether the content its type needs is present, and what
\* audioBuffers holds under its id: nothing, a buffer validateAudioBuffer
\* refuses (shorter than 1024 bytes), or a valid one.
MaxMsgs == 2

RawMessages ==
  [type : {"text"}, content : BOOLEAN, buffer : {"none"}]
    \cup [type : {"image"}, content : {TRUE}, buffer : {"none"}]
    \cup [type : {"voice", "audio"}, content : BOOLEAN,
          buffer : {"none", "short", "ok"}]

Payloads == UNION {[1..n -> RawMessages] : n \in 0..MaxMsgs}

\* parseMessage returns a ParsedMessage: the type is supported and the
\* content is there (otherwise it returns null or throws)
parses(message) ==
  message.type \in {"text", "voice", "audio"} /\ message.content

\* the messages with their ids, the position in the payload
identified(payload) ==
  [n \in 1..Len(payload) |->
     [messageId |-> n, type |-> payload[n].type,
      content |-> payload[n].content, buffer |-> payload[n].buffer]]

parseWebhookPayload(payload) == SelectSeq(identified(payload), parses)

Processed(message, st) == [messageId |-> message.messageId, status |-> st]

HandlerInit ==
  /\ BrowserIdle
  /\ vp = [pc |-> "idle"]
  /\ split = [pc |-> "idle"]
  /\ wh \in [pc : {"called"}, payload : Payloads, apiKey : BOOLEAN,
             parsedMessages : {<<>>}, index : {1},
             processedMessages : {<<>>}]
  /\ hook = [pc |-> "idle"]

\* handleIncomingMessage up to the loop: parse, return [] when nothing parsed
handleIncomingMessage ==
  /\ wh.pc = "called"
  /\ LET parsed == parseWebhookPayload(wh.payload)
     IN  wh' = [wh EXCEPT !.parsedMessages = parsed,
                          !.pc = IF Len(parsed) = 0 THEN "returned" ELSE "loop"]
  /\ UNCHANGED <<vp, split, hook>>
  /\ UNCHANGED BrowserVars

\* processMessage for the next parsed message, up to its first real await
processMessage ==
  /\ wh.pc = "loop"
  /\ wh.index <= Len(wh.parsedMessages)
  /\ LET message == wh.parsedMessages[wh.index]
     IN  IF message.type = "text" THEN
           /\ wh' = [wh EXCEPT
                !.processedMessages = Append(@, Processed(message, "COMPLETED")),
                !.index = @ + 1]
           /\ UNCHANGED vp
         ELSE IF message.buffer # "ok" THEN
           /\ wh' = [wh EXCEPT
                !.processedMessages = Append(@, Processed(message, "FAILED")),
                !.index = @ + 1]
           /\ UNCHANGED vp
         ELSE
           /\ wh' = [wh EXCEPT !.pc = "awaiting"]
           /\ vp' = vpStart("transcribeAudio", wh.apiKey)
  /\ UNCHANGED <<split, hook>>
  /\ UNCHANGED BrowserVars

\* the live session of the transcription the handler is waiting for
transcription ==
  /\ wh.pc = "awaiting"
  /\ vp.promise = "pending"
  /\ vpSession
  /\ UNCHANGED <<wh, split, hook>>
  /\ UNCHANGED BrowserVars

\* `await this.transcribeAudio(...)` completes: the rest of processMessage
transcribed ==
  /\ wh.pc = "awaiting"
  /\ vp.promise # "pending"
  /\ LET message == wh.parsedMessages[wh.index]
         st == IF vp.promise = "resolved" THEN "COMPLETED" ELSE "FAILED"
     IN  wh' = [wh EXCEPT
           !.processedMessages = Append(@, Processed(message, st)),
           !.index = @ + 1,
           !.pc = "loop"]
  /\ UNCHANGED <<vp, split, hook>>
  /\ UNCHANGED BrowserVars

\* the loop is over: return processedMessages
handlerReturn ==
  /\ wh.pc = "loop"
  /\ wh.index > Len(wh.parsedMessages)
  /\ wh' = [wh EXCEPT !.pc = "returned"]
  /\ UNCHANGED <<vp, split, hook>>
  /\ UNCHANGED BrowserVars

HandlerNext ==
  \/ handleIncomingMessage
  \/ processMessage
  \/ transcription
  \/ transcribed
  \/ handlerReturn

\* the handler's continuations run when they are ready, and a live session
\* does not stay open for ever
HandlerSpec == HandlerInit /\ [][HandlerNext]_vars /\ WF_vars(HandlerNext)

OnePerParsed ==
  LET parsed == parseWebhookPayload(wh.payload)
      done == wh.processedMessages
  IN  /\ Len(done) = Len(parsed)
      /\ \A n \in 1..Len(done) :
           /\ done[n].messageId = parsed[n].messageId
           /\ done[n].status \in {"COMPLETED", "FAILED"}
           /\ parsed[n].type = "text" => done[n].status = "COMPLETED"
           /\ (parsed[n].type # "text" /\ parsed[n].buffer # "ok") =>
                done[n].status = "FAILED"

\* C36: handleIncomingMessage returns, with exactly one ProcessedMessage per
\* successfully parsed message, in payload order, each COMPLETED or FAILED; a
\* message that fails is FAILED alone and later messages are still processed.
C36_OnePerParsed ==
  /\ <>(wh.pc = "returned")
  /\ [](wh.pc = "returned" => OnePerParsed)

====
